---- MODULE Spec2Model ----
(***************************************************************************)
(* Ant-colony TSP solver (src/src/lib/aco-algorithm.ts) and the execution  *)
(* controller of the useACOSimulator hook (src/src/pages/Index.tsx).       *)
(*                                                                         *)
(* Numbers of the program are JavaScript doubles; they are modelled as     *)
(* rationals <<numerator, denominator>> in lowest terms with a positive    *)
(* denominator.  The sums of distances (tour lengths, the 2-opt edge       *)
(* test) are rounded after every addition as a binary floating-point       *)
(* addition rounds, to MantissaBits significant bits; the other            *)
(* operations are exact.  Node indices are 0-based as in the source; a     *)
(* matrix is a function on 0..n-1 of functions, a tour is a sequence.      *)
(***************************************************************************)
EXTENDS Integers, Sequences, FiniteSets, TLC

(***************************************************************************)
(* Bounds of the model.                                                    *)
(***************************************************************************)
\* largest numHormigas / iteraciones a parameter set may ask for
MaxAnts == 2
MaxIter == 2
\* number of pheromone operations in one behaviour of SpecPheromone
MaxCalls == 2
\* number of ejecutarACO calls that start a run in one behaviour
MaxRuns == 2
\* length of the cycle of random draws
RandLen == 3
\* significant bits of the floating-point numbers of the model (a double has 53)
MantissaBits == 7
\* number of addLog calls in one behaviour of SpecLog
MaxLogCalls == 103
\* SpecGates: number of ejecutarACO invocations and of decisions each one takes
MaxInst == 3
GateMoves == 2

\* an optional value (null, or an object): the empty sequence or <<object>>
NULL == <<>>
Some(x) == <<x>>
\* the double Infinity
Infinity == <<1, 0>>

(***************************************************************************)
(* Rational arithmetic.                                                    *)
(***************************************************************************)
Abs(x) == IF x < 0 THEN -x ELSE x

\* In the operators below each argument is bound once (x \in {a}), so that it
\* is evaluated a single time however often the body uses it.
RECURSIVE GCD(_, _)
GCD(a, b) ==
    CHOOSE g \in {IF y = 0 THEN x ELSE GCD(y, x % y) : x \in {a}, y \in {b}} : TRUE

Norm(n, d) ==
    CHOOSE r \in {LET s == IF y < 0 THEN -1 ELSE 1
                  IN  CHOOSE q \in {<<(s * x) \div g, (s * y) \div g>> :
                                        g \in {GCD(Abs(x), Abs(y))}} : TRUE :
                  x \in {n}, y \in {d}} : TRUE

Rat(n, d) == Norm(n, d)
Num(n) == <<n, 1>>
RAdd(a, b) ==
    CHOOSE r \in {Norm(x[1] * y[2] + y[1] * x[2], x[2] * y[2]) :
                     x \in {a}, y \in {b}} : TRUE
RSub(a, b) ==
    CHOOSE r \in {Norm(x[1] * y[2] - y[1] * x[2], x[2] * y[2]) :
                     x \in {a}, y \in {b}} : TRUE
RMul(a, b) ==
    CHOOSE r \in {Norm(x[1] * y[1], x[2] * y[2]) : x \in {a}, y \in {b}} : TRUE
RDiv(a, b) ==
    CHOOSE r \in {Norm(x[1] * y[2], x[2] * y[1]) : x \in {a}, y \in {b}} : TRUE
RLt(a, b) == \E x \in {a}, y \in {b} : x[1] * y[2] < y[1] * x[2]
RLe(a, b) == \E x \in {a}, y \in {b} : x[1] * y[2] <= y[1] * x[2]
RMax(a, b) ==
    CHOOSE r \in {IF RLt(x, y) THEN y ELSE x : x \in {a}, y \in {b}} : TRUE
RFloor(a) == CHOOSE r \in {x[1] \div x[2] : x \in {a}} : TRUE

RECURSIVE RPow(_, _)
RPow(a, k) ==
    CHOOSE r \in {IF k = 0 THEN Num(1) ELSE RMul(x, RPow(x, k - 1)) : x \in {a}} : TRUE

\* The nearest integer, ties to the even one, of x with 2^(p-1) <= x < 2^p.
RedondearEntero(a) ==
    CHOOSE r \in {LET f == x[1] \div x[2]
                      rem == x[1] % x[2]
                  IN  IF 2 * rem < x[2] THEN Num(f)
                      ELSE IF 2 * rem > x[2] THEN Num(f + 1)
                      ELSE IF f % 2 = 0 THEN Num(f) ELSE Num(f + 1) :
                  x \in {a}} : TRUE

\* Round to nearest, ties to even, at MantissaBits significant bits: what a
\* floating-point operation does to its exact result (no overflow, no
\* subnormal numbers).
RECURSIVE Redondear(_)
Redondear(a) ==
    CHOOSE r \in {
        IF x[1] = 0 THEN x
        ELSE IF x[1] < 0 THEN RSub(Num(0), Redondear(RSub(Num(0), x)))
        ELSE IF RLe(Num(2 ^ MantissaBits), x)
             THEN RMul(Num(2), Redondear(RDiv(x, Num(2))))
        ELSE IF RLt(x, Num(2 ^ (MantissaBits - 1)))
             THEN RDiv(Redondear(RMul(x, Num(2))), Num(2))
        ELSE RedondearEntero(x) :
        x \in {a}} : TRUE

\* a + b in floating point
FAdd(a, b) == Redondear(RAdd(a, b))

(***************************************************************************)
(* Matrices and tours.                                                     *)
(***************************************************************************)
\* a matrix literal from a sequence of rows
Mat(rows) ==
    [i \in 0..(Len(rows) - 1) |->
        [j \in 0..(Len(rows[i + 1]) - 1) |-> rows[i + 1][j + 1]]]

\* matrix.length
Size(m) == Cardinality(DOMAIN m)

\* the nodes 0..n-1 in index order, as the loops `for (j = 0; j < n; j++)` scan them
NodeSeq(n) == [k \in 1..n |-> k - 1]

Range(s) == {s[k] : k \in DOMAIN s}

RECURSIVE RSum(_, _)
RSum(s, k) == IF k > Len(s) THEN Num(0) ELSE RAdd(s[k], RSum(s, k + 1))

(***************************************************************************)
(* Pheromone model.                                                        *)
(***************************************************************************)
inicializarFeromonas(n, initial, minPheromone) ==
    [i \in 0..(n - 1) |->
        [j \in 0..(n - 1) |->
            IF i = j THEN Num(0) ELSE RMax(initial, minPheromone)]]

Mut_evaporarFeromonas(pheromone, rho, minPheromone) ==
    [i \in DOMAIN pheromone |->
        [j \in DOMAIN pheromone[i] |->
            IF i # j
            THEN RMul(pheromone[i][j], RSub(Num(1), rho))
            ELSE pheromone[i][j]]]

evaporarFeromonas(pheromone, rho, minPheromone) ==
    [i \in DOMAIN pheromone |->
        [j \in DOMAIN pheromone[i] |->
            IF i # j
            THEN RMax(RMul(pheromone[i][j], RSub(Num(1), rho)), minPheromone)
            ELSE pheromone[i][j]]]

Mut_DepositEdge(pheromone, from, to, delta, minPheromone) ==
    [pheromone EXCEPT ![from][to] = RMax(RAdd(@, delta), minPheromone)]

\* pheromone[from][to] = max(pheromone[from][to] + delta, min), then the same
\* for pheromone[to][from]; with from = to the cell is raised twice
DepositEdge(pheromone, from, to, delta, minPheromone) ==
    LET p1 == [pheromone EXCEPT
                  ![from][to] = RMax(RAdd(@, delta), minPheromone)]
    IN  [p1 EXCEPT ![to][from] = RMax(RAdd(@, delta), minPheromone)]

RECURSIVE DepositTour(_, _, _, _, _)
Mut_DepositTour(pheromone, tour, i, delta, minPheromone) ==
    IF i > Len(tour) - 1
    THEN pheromone
    ELSE DepositTour(
             DepositEdge(pheromone, tour[i], tour[i + 1], delta, minPheromone),
             tour, i + 1, delta, minPheromone)

DepositTour(pheromone, tour, i, delta, minPheromone) ==
    IF i > Len(tour) - 1
    THEN IF Len(tour) > 0
         THEN DepositEdge(pheromone, tour[Len(tour)], tour[1], delta, minPheromone)
         ELSE pheromone
    ELSE DepositTour(
             DepositEdge(pheromone, tour[i], tour[i + 1], delta, minPheromone),
             tour, i + 1, delta, minPheromone)

RECURSIVE DepositFrom(_, _, _, _, _)
DepositFrom(solutions, k, pheromone, Q, minPheromone) ==
    IF k > Len(solutions) THEN pheromone
    ELSE LET solution == solutions[k]
         IN  IF RLe(solution.length, Num(0))
             THEN DepositFrom(solutions, k + 1, pheromone, Q, minPheromone)
             ELSE DepositFrom(solutions, k + 1,
                      DepositTour(pheromone, solution.tour, 1,
                                  RDiv(Q, solution.length), minPheromone),
                      Q, minPheromone)

depositarFeromonas(solutions, pheromone, Q, minPheromone) ==
    DepositFrom(solutions, 1, pheromone, Q, minPheromone)

Mut_actualizarFeromonas(pheromone, solutions, rho, Q, minPheromone) ==
    evaporarFeromonas(depositarFeromonas(solutions, pheromone, Q, minPheromone),
                      rho, minPheromone)

actualizarFeromonas(pheromone, solutions, rho, Q, minPheromone) ==
    depositarFeromonas(solutions,
                       evaporarFeromonas(pheromone, rho, minPheromone),
                       Q, minPheromone)

(***************************************************************************)
(* Tour evaluator.                                                         *)
(***************************************************************************)
\* lines 200-209: length += distanceMatrix[..][..], edge after edge, then the
\* closing edge
RECURSIVE LongitudDesde(_, _, _, _)
LongitudDesde(tour, i, length, distanceMatrix) ==
    IF i > Len(tour) - 1
    THEN IF Len(tour) > 0
         THEN FAdd(length, Num(distanceMatrix[tour[Len(tour)]][tour[1]]))
         ELSE length
    ELSE CHOOSE r \in {LongitudDesde(tour, i + 1, l, distanceMatrix) :
                l \in {FAdd(length, Num(distanceMatrix[tour[i]][tour[i + 1]]))}} : TRUE

calcularLongitudRuta(tour, distanceMatrix) ==
    LongitudDesde(tour, 1, Num(0), distanceMatrix)

(***************************************************************************)
(* Transition rule.  `random` is the value Math.random() returns in the    *)
(* call (one draw per call, in the fallback or in the roulette wheel).     *)
(***************************************************************************)
inicializarHormiga(startNode) ==
    [tour |-> <<startNode>>, visited |-> {startNode},
     length |-> Num(0), currentNode |-> startNode]

Mut_Unvisited(ant, n) == NodeSeq(n)

\* the unvisited nodes in index order
Unvisited(ant, n) ==
    LET free(j) == j \notin ant.visited
    IN  SelectSeq(NodeSeq(n), free)

\* the candidate list built by the first loop: unvisited nodes at a distance > 0
Candidates(ant, pheromone, distanceMatrix, alpha, beta, n) ==
    LET usable(j) == j \notin ant.visited /\ ~(distanceMatrix[ant.currentNode][j] <= 0)
        nodes == SelectSeq(NodeSeq(n), usable)
    IN  [k \in 1..Len(nodes) |->
            LET j == nodes[k]
                tau == pheromone[ant.currentNode][j]
                distance == distanceMatrix[ant.currentNode][j]
                eta == Rat(1, distance)
            IN  [nodeIndex |-> j,
                 probability |-> RMul(RPow(tau, alpha), RPow(eta, beta)),
                 pheromone |-> tau,
                 distance |-> distance,
                 heuristic |-> eta]]

\* the roulette wheel: the first candidate whose cumulative probability
\* reaches the draw, the last candidate when none does
RECURSIVE Ruleta(_, _, _, _)
Ruleta(probs, k, cumulative, random) ==
    IF k > Len(probs) THEN probs[Len(probs)].nodeIndex
    ELSE LET c == RAdd(cumulative, probs[k].probability)
         IN  IF RLe(random, c) THEN probs[k].nodeIndex
             ELSE Ruleta(probs, k + 1, c, random)

seleccionarSiguienteNodo(ant, pheromone, distanceMatrix, alpha, beta, n, random) ==
    CHOOSE result \in {
    LET sum == RSum([k \in 1..Len(probs) |-> probs[k].probability], 1)
    IN  IF Len(probs) = 0 \/ sum = Num(0)
        THEN LET unvisited == Unvisited(ant, n)
             IN  IF Len(unvisited) = 0
                 THEN [choice |-> -1, probs |-> <<>>]
                 ELSE [choice |->
                          unvisited[RFloor(RMul(random, Num(Len(unvisited)))) + 1],
                       probs |->
                          [k \in 1..Len(probs) |->
                              [probs[k] EXCEPT !.probability = Rat(1, Len(probs))]]]
        ELSE LET normal == [k \in 1..Len(probs) |->
                              [probs[k] EXCEPT !.probability = RDiv(@, sum)]]
             IN  [choice |-> Ruleta(normal, 1, Num(0), random), probs |-> normal]
    : probs \in {Candidates(ant, pheromone, distanceMatrix, alpha, beta, n)}} : TRUE

\* lines 379-381 of the run: the caller applies the choice to the agent
AplicarEleccion(ant, choice) ==
    [ant EXCEPT !.tour = Append(@, choice),
                !.visited = @ \cup {choice},
                !.currentNode = choice]

(***************************************************************************)
(* Inputs of the model.                                                    *)
(***************************************************************************)
\* distance matrices a cached matrix may hold (SimulatorSection.tsx loads
\* whatever the cache returns; the hook validates only that it is not empty):
\* a symmetric 3x3 matrix, an asymmetric 3x3 matrix with a zero and a negative
\* off-diagonal entry, a 2x3 matrix (not square), a 1x1 matrix
MatrizSimetrica == Mat(<< <<0, 1, 2>>, <<1, 0, 3>>, <<2, 3, 0>> >>)
MatrizDegenerada == Mat(<< <<0, 1, 2>>, <<2, 0, -1>>, <<1, 0, 0>> >>)
MatrizNoCuadrada == Mat(<< <<0, 1, 2>>, <<3, 0, 1>> >>)
MatrizUnNodo == Mat(<< <<0>> >>)
Matrices == {MatrizSimetrica, MatrizDegenerada, MatrizNoCuadrada, MatrizUnNodo}

\* a matrix the specification accepts: not empty and square
MatrizValida(m) == Size(m) > 0 /\ \A i \in DOMAIN m : Size(m[i]) = Size(m)

\* parameter sets the caller may pass (numHormigas and iteraciones include 0,
\* which the wizard's number inputs do not exclude)
ParamSets ==
    [numHormigas : 0..MaxAnts, iteraciones : 0..MaxIter,
     alpha : {1}, beta : {1}, rho : {Rat(1, 2)}, Q : {Num(1)},
     minPheromone : {Rat(1, 100)}]

\* values Math.random() may return, and the sequences of draws of a behaviour
\* (draw number k returns randSeq[k], cyclically)
RandomValues == {Rat(1, 4), Rat(9, 10)}
RandSeqs == [1..RandLen -> RandomValues]

(***************************************************************************)
(* State.                                                                  *)
(***************************************************************************)
VARIABLES
    state,           \* the hook's published React state (SimulatorState)
    pauseRef,        \* pauseRef.current
    stepResolveRef,  \* stepResolveRef.current: NULL or the pending gate
    closure,         \* the `state` captured by the memoised ejecutarACO callback
    params,          \* the ACOParams the caller passes
    cachedMatrix,    \* the matrix getCachedMatrix() returns
    randSeq,         \* the random source
    randIdx,         \* number of draws made so far (mod Len(randSeq))
    pc,              \* position of the run (ejecutarACO invocation)
    runs,            \* number of runs started so far
    run,             \* the locals of the run
    returned,        \* the promise of the last ejecutarACO call: its status ("none"
                     \* before any call, "pending", "resolved", "rejected") and value
    pher,            \* SpecPheromone: the matrix under test
    pherMin,         \* SpecPheromone: its minPheromone
    pherCalls,       \* SpecPheromone: operations applied so far
    pherOp,          \* SpecPheromone: the last operation applied
    pherArgs,        \* SpecPheromone: the matrix before that operation and its arguments
    heurMatrix,      \* SpecHeuristics: the distance matrix under test
    heurOp,          \* SpecHeuristics: the function called last
    heurIn,          \* SpecHeuristics: its argument (a tour, or <<startNode>>)
    heurOut,         \* SpecHeuristics: its result, NULL while it runs
    optTour,         \* run2Opt: currentTour
    optPc,           \* run2Opt: "idle", "sweep" (in the while loop) or "done"
    optCall,         \* run2Opt: 1 in a call, 2 in the call on the result of a call
    optPrimero,      \* run2Opt: the result of the first of the two calls
    logs,            \* SpecLog: state.logs
    logCalls,        \* SpecLog: number of addLog calls so far
    logBase,         \* SpecLog: number of addLog calls before the last reset
    instancias,      \* SpecGates: the ejecutarACO invocations in flight
    avances,         \* SpecGates: advanceStep calls made while a gate was pending
    heap,            \* SpecSnapshot: the arrays of the program, by reference
    refs             \* SpecSnapshot: the references the run and the page hold

vars == <<state, pauseRef, stepResolveRef, closure, params, cachedMatrix,
          randSeq, randIdx, pc, runs, run, returned, pher, pherMin, pherCalls, pherOp,
          pherArgs,
          heurMatrix, heurOp, heurIn, heurOut, optTour, optPc, optCall, optPrimero,
          logs, logCalls, logBase, instancias, avances, heap, refs>>
pherVars == <<pher, pherMin, pherCalls, pherOp, pherArgs>>
heurVars == <<heurMatrix, heurOp, heurIn, heurOut, optTour, optPc, optCall, optPrimero>>
logVars == <<logs, logCalls, logBase>>
gateVars == <<instancias, avances>>
snapVars == <<heap, refs>>
extraVars == <<logVars, gateVars, snapVars>>
auxVars == <<pherVars, heurVars, extraVars>>
runVars == <<state, pauseRef, stepResolveRef, closure, params, cachedMatrix,
             randSeq, randIdx, pc, runs, run, returned>>

initialState ==
    [distanceMatrix |-> <<>>,
     pheromone |-> <<>>,
     bestSolution |-> NULL,
     bestPerIteration |-> <<>>,
     currentProbabilities |-> <<>>,
     isRunning |-> FALSE,
     isPaused |-> FALSE,
     isStepMode |-> FALSE,
     currentStep |-> NULL,
     metrics |-> [bestLength |-> Infinity, currentIteration |-> 0],
     progress |-> Num(0)]

\* the locals of an invocation before it has started.  Three fields are
\* history, not program state: pausa ("no", "pausada" after togglePause set the
\* flag during the run, "reanudada" after it cleared it), cancelled (reset was
\* called during the run) and randStart (the draw the run started at)
NoRun ==
    [distanceMatrix |-> <<>>, isRunning |-> FALSE, isStepMode |-> FALSE,
     params |-> [numHormigas |-> 0, iteraciones |-> 0, alpha |-> 0, beta |-> 0,
                 rho |-> Num(0), Q |-> Num(0), minPheromone |-> Num(0)],
     n |-> 0, pheromone |-> <<>>, globalBest |-> NULL,
     bestPerIteration |-> <<>>, iter |-> 0, hormigas |-> <<>>,
     solutions |-> <<>>, antIdx |-> 0, choice |-> -1, reports |-> <<>>,
     antSteps |-> 0, randStart |-> 0,
     pausa |-> "no", cancelled |-> FALSE]

\* no heuristic under test
HeurReposo ==
    /\ heurMatrix = <<>>
    /\ heurOp = "none"
    /\ heurIn = <<>>
    /\ heurOut = NULL
    /\ optTour = <<>>
    /\ optPc = "idle"
    /\ optCall = 0
    /\ optPrimero = NULL

\* no log, no concurrent invocation and no array under test
ExtraReposo ==
    /\ logs = <<>>
    /\ logCalls = 0
    /\ logBase = 0
    /\ instancias = <<>>
    /\ avances = 0
    /\ heap = <<>>
    /\ refs = <<>>

\* positions at which the run is suspended on an await (or not in flight), so
\* that event handlers of the page can run
Suspended == {"idle", "pauseWait", "stepGate", "antDelay", "done", "thrown"}
InFlight == {"iterTop", "pauseWait", "building", "stepGate", "antDelay", "endIter"}

Init ==
    /\ state = initialState
    /\ pauseRef = FALSE
    /\ stepResolveRef = NULL
    /\ closure = [isRunning |-> FALSE]
    /\ params \in ParamSets
    /\ cachedMatrix \in Matrices
    /\ randSeq \in RandSeqs
    /\ randIdx = 0
    /\ pc = "idle"
    /\ runs = 0
    /\ run = NoRun
    /\ returned = [status |-> "none", value |-> NULL]
    /\ pher = <<>>
    /\ pherMin = Num(0)
    /\ pherCalls = 0
    /\ pherOp = "none"
    /\ pherArgs = NULL
    /\ HeurReposo
    /\ ExtraReposo

\* Math.random(): the next draw of the random source
Draw(k) == randSeq[(k % Len(randSeq)) + 1]

(***************************************************************************)
(* The run: ejecutarACO, cut at its awaits.  Between two awaits the code   *)
(* runs without interruption; the positions "iterTop", "building" and      *)
(* "endIter" are inside such a stretch, and no handler of the page is      *)
(* enabled there.  One invocation is in flight at a time in this           *)
(* specification.                                                          *)
(***************************************************************************)

\* lines 345-349: fresh agents, then the first agent or the end of the iteration
EmpezarIteracion(r) ==
    [r EXCEPT !.hormigas = [k \in 1..r.params.numHormigas |-> inicializarHormiga(0)],
              !.solutions = <<>>,
              !.antIdx = 0]

PcTrasHormigas(r) ==
    IF r.antIdx < Len(r.hormigas) THEN "building" ELSE "endIter"

\* lines 319-324: no matrix, the call logs an error and resolves to null
EjecutarSinMatriz ==
    /\ pc \in {"idle", "done", "thrown"}
    /\ Size(state.distanceMatrix) = 0
    /\ returned' = [status |-> "resolved", value |-> NULL]
    /\ UNCHANGED <<state, pauseRef, stepResolveRef, closure, params,
                   cachedMatrix, randSeq, randIdx, pc, run, runs>>

\* lines 326-336: the run starts
Ejecutar ==
    /\ pc \in {"idle", "done", "thrown"}
    /\ Size(state.distanceMatrix) # 0
    /\ runs < MaxRuns
    /\ runs' = runs + 1
    /\ state' = [state EXCEPT !.isRunning = TRUE, !.isPaused = FALSE,
                              !.bestPerIteration = <<>>]
    /\ pauseRef' = FALSE
    /\ run' = [NoRun EXCEPT
                  !.distanceMatrix = state.distanceMatrix,
                  !.isRunning = closure.isRunning,
                  !.isStepMode = state.isStepMode,
                  !.params = params,
                  !.n = Size(state.distanceMatrix),
                  !.pheromone = inicializarFeromonas(Size(state.distanceMatrix),
                                                     Num(1), params.minPheromone),
                  !.randStart = randIdx]
    /\ pc' = "iterTop"
    /\ returned' = [status |-> "pending", value |-> NULL]
    /\ UNCHANGED <<stepResolveRef, closure, params, cachedMatrix, randSeq, randIdx>>

Mut_Completar ==
    /\ pc = "iterTop"
    /\ ~(run.iter < run.params.iteraciones)
    /\ returned' = [status |-> "resolved", value |-> run.globalBest]
    /\ pc' = "done"
    /\ UNCHANGED <<state, pauseRef, stepResolveRef, closure, params, cachedMatrix,
                   randSeq, randIdx, run, runs>>

\* line 338 with iter = iteraciones, lines 428-431: completion
Completar ==
    /\ pc = "iterTop"
    /\ ~(run.iter < run.params.iteraciones)
    /\ state' = [state EXCEPT !.isRunning = FALSE]
    /\ returned' = [status |-> "resolved", value |-> run.globalBest]
    /\ pc' = "done"
    /\ UNCHANGED <<pauseRef, stepResolveRef, closure, params, cachedMatrix,
                   randSeq, randIdx, run, runs>>

\* lines 340-341: the flag is set at the top of an iteration, the run sleeps
EsperarPausa ==
    /\ pc = "iterTop"
    /\ run.iter < run.params.iteraciones
    /\ pauseRef
    /\ pc' = "pauseWait"
    /\ UNCHANGED <<state, pauseRef, stepResolveRef, closure, params,
                   cachedMatrix, randSeq, randIdx, run, returned, runs>>

\* lines 340, 345-349: the flag is clear, the iteration begins
IniciarIteracion ==
    /\ pc = "iterTop"
    /\ run.iter < run.params.iteraciones
    /\ ~pauseRef
    /\ run' = EmpezarIteracion(run)
    /\ pc' = PcTrasHormigas(run')
    /\ UNCHANGED <<state, pauseRef, stepResolveRef, closure, params,
                   cachedMatrix, randSeq, randIdx, returned, runs>>

\* line 342: the 100 ms timer fires and the run reads state.isRunning of its
\* closure; when that is false the run returns the best found so far
PausaRetorna ==
    /\ pc = "pauseWait"
    /\ ~run.isRunning
    /\ returned' = [status |-> "resolved", value |-> run.globalBest]
    /\ pc' = "done"
    /\ UNCHANGED <<state, pauseRef, stepResolveRef, closure, params,
                   cachedMatrix, randSeq, randIdx, run, runs>>

\* lines 340-349: the timer fires, the closure's isRunning is true and the flag
\* is clear: the iteration begins.  (With the flag still set the run sleeps
\* again, which changes nothing.)
PausaReanuda ==
    /\ pc = "pauseWait"
    /\ run.isRunning
    /\ ~pauseRef
    /\ run' = EmpezarIteracion(run)
    /\ pc' = PcTrasHormigas(run')
    /\ UNCHANGED <<state, pauseRef, stepResolveRef, closure, params,
                   cachedMatrix, randSeq, randIdx, returned, runs>>

\* the agent the run is building
HormigaActual(r) == r.hormigas[r.antIdx + 1]

\* lines 384-385: the agent's tour is evaluated and recorded as a solution
RegistrarSolucion(r) ==
    LET ant == HormigaActual(r)
        length == calcularLongitudRuta(ant.tour, r.distanceMatrix)
    IN  [r EXCEPT !.hormigas[r.antIdx + 1].length = length,
                  !.solutions = Append(@, [tour |-> ant.tour, length |-> length])]

\* the decision of line 353 for the agent being built
Decision(r, random) ==
    seleccionarSiguienteNodo(HormigaActual(r), r.pheromone, r.distanceMatrix,
                             r.params.alpha, r.params.beta, r.n, random)

\* lines 352-362, 379-381 without step mode: one decision of the agent, applied
Decidir ==
    /\ pc = "building"
    /\ Cardinality(HormigaActual(run).visited) < run.n
    /\ ~run.isStepMode
    /\ LET sel == Decision(run, Draw(randIdx))
       IN  IF sel.choice = -1
           THEN /\ run' = RegistrarSolucion(run)
                /\ pc' = "antDelay"
           ELSE /\ run' = [run EXCEPT !.hormigas[run.antIdx + 1] =
                                          AplicarEleccion(@, sel.choice)]
                /\ pc' = "building"
    /\ randIdx' = (randIdx + 1) % Len(randSeq)
    /\ UNCHANGED <<state, pauseRef, stepResolveRef, closure, params,
                   cachedMatrix, randSeq, returned, runs>>

Mut_DecidirPaso ==
    /\ pc = "building"
    /\ Cardinality(HormigaActual(run).visited) < run.n
    /\ run.isStepMode
    /\ LET sel == Decision(run, Draw(randIdx))
       IN  run' = [run EXCEPT !.hormigas[run.antIdx + 1] =
                                  AplicarEleccion(@, sel.choice),
                              !.antSteps = @ + 1]
    /\ pc' = "building"
    /\ randIdx' = (randIdx + 1) % Len(randSeq)
    /\ UNCHANGED <<state, stepResolveRef, pauseRef, closure, params,
                   cachedMatrix, randSeq, returned, runs>>

\* lines 352-376 in step mode: the decision is published, onAntStep is called
\* and the run waits for the gate
DecidirPaso ==
    /\ pc = "building"
    /\ Cardinality(HormigaActual(run).visited) < run.n
    /\ run.isStepMode
    /\ LET sel == Decision(run, Draw(randIdx))
       IN  IF sel.choice = -1
           THEN /\ run' = RegistrarSolucion(run)
                /\ pc' = "antDelay"
                /\ UNCHANGED <<state, stepResolveRef, runs>>
           ELSE /\ state' = [state EXCEPT
                                !.currentProbabilities = sel.probs,
                                !.currentStep = Some([ant |-> run.antIdx,
                                                      node |-> sel.choice])]
                /\ run' = [run EXCEPT !.choice = sel.choice, !.antSteps = @ + 1]
                /\ stepResolveRef' = Some("resolve")
                /\ pc' = "stepGate"
    /\ randIdx' = (randIdx + 1) % Len(randSeq)
    /\ UNCHANGED <<pauseRef, closure, params, cachedMatrix, randSeq, returned, runs>>

\* lines 434-439 and 379-381: advanceStep resolves the pending gate and clears
\* it; the run applies the choice it was holding.  Without a pending gate the
\* call does nothing.
AdvanceStep ==
    /\ pc \in Suspended
    /\ IF stepResolveRef # NULL
       THEN /\ stepResolveRef' = NULL
            /\ run' = [run EXCEPT !.hormigas[run.antIdx + 1] =
                                      AplicarEleccion(@, run.choice),
                                  !.choice = -1]
            /\ pc' = "building"
       ELSE UNCHANGED <<stepResolveRef, run, pc, runs>>
    /\ UNCHANGED <<state, pauseRef, closure, params, cachedMatrix, randSeq,
                   randIdx, returned, runs>>

\* line 352 with the tour complete, lines 384-388: the agent is finished
TerminarHormiga ==
    /\ pc = "building"
    /\ ~(Cardinality(HormigaActual(run).visited) < run.n)
    /\ run' = RegistrarSolucion(run)
    /\ pc' = "antDelay"
    /\ UNCHANGED <<state, pauseRef, stepResolveRef, closure, params,
                   cachedMatrix, randSeq, randIdx, returned, runs>>

\* line 388 and line 349: the visualisation delay ends, the next agent
SiguienteHormiga ==
    /\ pc = "antDelay"
    /\ run' = [run EXCEPT !.antIdx = @ + 1]
    /\ pc' = PcTrasHormigas(run')
    /\ UNCHANGED <<state, pauseRef, stepResolveRef, closure, params,
                   cachedMatrix, randSeq, randIdx, returned, runs>>

\* lines 392-397: the first solution of minimal length
RECURSIVE MejorDesde(_, _, _)
MejorDesde(solutions, k, iterBest) ==
    IF k > Len(solutions) THEN iterBest
    ELSE MejorDesde(solutions, k + 1,
                    IF RLt(solutions[k].length, iterBest.length)
                    THEN solutions[k] ELSE iterBest)

MejorDeIteracion(solutions) == MejorDesde(solutions, 1, solutions[1])

Mut_NuevoGlobalBest(globalBest, iterBest) ==
    IF globalBest = NULL THEN Some(iterBest) ELSE globalBest

Mut_NuevoGlobalBestEmpate(globalBest, iterBest) ==
    IF globalBest = NULL \/ RLe(iterBest.length, globalBest[1].length)
    THEN Some(iterBest) ELSE globalBest

\* lines 399-402: the global best is replaced on a strict improvement
NuevoGlobalBest(globalBest, iterBest) ==
    IF globalBest = NULL \/ RLt(iterBest.length, globalBest[1].length)
    THEN Some(iterBest) ELSE globalBest

\* lines 392-404 with no agent: solutions[0] is undefined and reading
\* iterBest.length at line 404 throws (the local globalBest, an empty object by
\* then, is never read again); the promise of the run is rejected
Lanzar ==
    /\ pc = "endIter"
    /\ Len(run.solutions) = 0
    /\ pc' = "thrown"
    /\ returned' = [status |-> "rejected", value |-> NULL]
    /\ UNCHANGED <<state, pauseRef, stepResolveRef, closure, params,
                   cachedMatrix, randSeq, randIdx, run, runs>>

Mut_InformeIteracion(r, iterBest) ==
    [iteration |-> r.iter,
     best |-> iterBest.length,
     solutions |-> r.solutions]

\* lines 423-425: the arguments onIterationComplete is called with
InformeIteracion(r, iterBest) ==
    [iteration |-> r.iter + 1,
     best |-> iterBest.length,
     solutions |-> r.solutions]

\* lines 392-425: the end of an iteration
FinIteracion ==
    /\ pc = "endIter"
    /\ Len(run.solutions) > 0
    /\ LET iterBest == MejorDeIteracion(run.solutions)
           globalBest == NuevoGlobalBest(run.globalBest, iterBest)
           bestPerIteration == Append(run.bestPerIteration, iterBest.length)
           pheromone == actualizarFeromonas(run.pheromone, run.solutions,
                            run.params.rho, run.params.Q, run.params.minPheromone)
       IN  /\ run' = [run EXCEPT
                         !.globalBest = globalBest,
                         !.bestPerIteration = bestPerIteration,
                         !.pheromone = pheromone,
                         !.reports = Append(@, InformeIteracion(run, iterBest)),
                         !.iter = @ + 1]
           /\ state' = [state EXCEPT
                           !.pheromone = pheromone,
                           !.bestSolution = globalBest,
                           !.bestPerIteration = bestPerIteration,
                           !.progress = RMul(Rat(run.iter + 1, run.params.iteraciones),
                                             Num(100)),
                           !.metrics = [bestLength |->
                                            IF globalBest[1].length = Num(0)
                                            THEN Infinity ELSE globalBest[1].length,
                                        currentIteration |-> run.iter + 1]]
    /\ pc' = "iterTop"
    /\ UNCHANGED <<pauseRef, stepResolveRef, closure, params, cachedMatrix,
                   randSeq, randIdx, returned, runs>>

(***************************************************************************)
(* Handlers of the page.  They run while the run is suspended or absent.   *)
(* The memoised ejecutarACO callback is created anew, capturing the state  *)
(* of that render, when state.distanceMatrix or state.isStepMode changes   *)
(* (its dependency list, line 432).                                        *)
(***************************************************************************)

\* lines 441-444
TogglePause ==
    /\ pc \in Suspended
    /\ pauseRef' = ~pauseRef
    /\ state' = [state EXCEPT !.isPaused = ~pauseRef]
    /\ run' = IF pc \in InFlight
              THEN [run EXCEPT !.pausa = IF pauseRef THEN "reanudada" ELSE "pausada"]
              ELSE run
    /\ UNCHANGED <<stepResolveRef, closure, params, cachedMatrix, randSeq,
                   randIdx, pc, returned, runs>>

\* lines 446-448
SetStepMode ==
    /\ pc \in Suspended
    /\ \E enabled \in BOOLEAN :
          /\ state' = [state EXCEPT !.isStepMode = enabled]
          /\ closure' = IF enabled # state.isStepMode
                        THEN [isRunning |-> state.isRunning] ELSE closure
    /\ UNCHANGED <<pauseRef, stepResolveRef, params, cachedMatrix, randSeq,
                   randIdx, pc, run, returned, runs>>

\* lines 491-494: the published state is the initial state again and the
\* pause flag is cleared; a run in flight is asked to stop
Reset ==
    /\ pc \in Suspended
    /\ state' = initialState
    /\ pauseRef' = FALSE
    /\ closure' = IF state.distanceMatrix # initialState.distanceMatrix
                     \/ state.isStepMode # initialState.isStepMode
                  THEN [isRunning |-> FALSE] ELSE closure
    /\ run' = IF pc \in InFlight THEN [run EXCEPT !.cancelled = TRUE] ELSE run
    /\ UNCHANGED <<stepResolveRef, params, cachedMatrix, randSeq, randIdx,
                   pc, returned, runs>>

\* SimulatorSection.tsx, handleLoadCachedMatrix: the cached matrix becomes the
\* distance matrix and the results of earlier runs are cleared
LoadCachedMatrix ==
    /\ pc \in Suspended
    /\ state' = [state EXCEPT !.distanceMatrix = cachedMatrix,
                              !.bestSolution = NULL,
                              !.bestPerIteration = <<>>,
                              !.pheromone = <<>>,
                              !.progress = Num(0)]
    /\ closure' = [isRunning |-> state.isRunning]
    /\ UNCHANGED <<pauseRef, stepResolveRef, params, cachedMatrix, randSeq,
                   randIdx, pc, run, returned, runs>>

Next ==
    \/ (EjecutarSinMatriz /\ UNCHANGED auxVars)
    \/ (Ejecutar /\ UNCHANGED auxVars)
    \/ (Completar /\ UNCHANGED auxVars)
    \/ (EsperarPausa /\ UNCHANGED auxVars)
    \/ (IniciarIteracion /\ UNCHANGED auxVars)
    \/ (PausaRetorna /\ UNCHANGED auxVars)
    \/ (PausaReanuda /\ UNCHANGED auxVars)
    \/ (Decidir /\ UNCHANGED auxVars)
    \/ (DecidirPaso /\ UNCHANGED auxVars)
    \/ (AdvanceStep /\ UNCHANGED auxVars)
    \/ (TerminarHormiga /\ UNCHANGED auxVars)
    \/ (SiguienteHormiga /\ UNCHANGED auxVars)
    \/ (Lanzar /\ UNCHANGED auxVars)
    \/ (FinIteracion /\ UNCHANGED auxVars)
    \/ (TogglePause /\ UNCHANGED auxVars)
    \/ (SetStepMode /\ UNCHANGED auxVars)
    \/ (Reset /\ UNCHANGED auxVars)
    \/ (LoadCachedMatrix /\ UNCHANGED auxVars)

Spec == Init /\ [][Next]_vars

\* the steps of the run itself: the code between two awaits, and the timers
\* and promises that end an await without an event of the page
RunStep ==
    \/ EsperarPausa
    \/ IniciarIteracion
    \/ PausaRetorna
    \/ PausaReanuda
    \/ Decidir
    \/ DecidirPaso
    \/ TerminarHormiga
    \/ SiguienteHormiga
    \/ Lanzar
    \/ FinIteracion
    \/ Completar

\* the event loop runs a continuation that is ready and fires a timer that is
\* due: a step of the run that stays enabled is taken
\* The behaviours checked for progress start from the 3x3 matrices and one
\* cycle of draws.
InitLive ==
    /\ Init
    /\ cachedMatrix \in {MatrizSimetrica, MatrizDegenerada}
    /\ randSeq = [k \in 1..RandLen |-> IF k = 2 THEN Rat(9, 10) ELSE Rat(1, 4)]

SpecLive == InitLive /\ [][Next]_vars /\ WF_vars(RunStep /\ UNCHANGED auxVars)

(***************************************************************************)
(* SpecPheromone: the pheromone model on its own.  A matrix is created by  *)
(* inicializarFeromonas and then evaporated, deposited on and updated with *)
(* arbitrary rates and lists of solutions.                                 *)
(***************************************************************************)
\* sizes, floors, rates and deposit constants tried
PherSizes == {1, 2, 3, 4}
PherMins == {Rat(1, 100), Num(2)}
PherRhos == {Num(0), Rat(1, 2), Num(1)}
PherQs == {Num(1), Num(3)}

\* tours handed to deposit: the full tours from node 0 and the one-node tour
PherTours(n) ==
    {t \in [1..n -> 0..(n - 1)] :
        t[1] = 0 /\ \A a, b \in 1..n : a # b => t[a] # t[b]} \cup {<<0>>}

\* solutions: a tour with a length (<= 0: no deposit)
PherSolutions(n) ==
    {[tour |-> t, length |-> l] : t \in PherTours(n), l \in {Num(-1), Num(0), Num(2)}}

\* lists of solutions: none, one, or two that both deposit
PherLists(n) ==
    {<<>>} \cup {<<s>> : s \in PherSolutions(n)}
           \cup {<<s1, s2>> : s1, s2 \in {s \in PherSolutions(n) : RLt(Num(0), s.length)}}

InitPheromone ==
    /\ state = initialState
    /\ pauseRef = FALSE
    /\ stepResolveRef = NULL
    /\ closure = [isRunning |-> FALSE]
    /\ params = NoRun.params
    /\ cachedMatrix = <<>>
    /\ randSeq = <<>>
    /\ randIdx = 0
    /\ pc = "idle"
    /\ runs = 0
    /\ run = NoRun
    /\ returned = [status |-> "none", value |-> NULL]
    /\ pherMin \in PherMins
    /\ \E n \in PherSizes : pher = inicializarFeromonas(n, Num(1), pherMin)
    /\ pherCalls = 0
    /\ pherOp = "inicializar"
    /\ pherArgs = NULL
    /\ HeurReposo
    /\ ExtraReposo

Evaporar ==
    /\ pherCalls < MaxCalls
    /\ \E rho \in PherRhos :
          /\ pher' = evaporarFeromonas(pher, rho, pherMin)
          /\ pherArgs' = Some([antes |-> pher, solutions |-> <<>>, rho |-> rho,
                                Q |-> Num(0)])
    /\ pherCalls' = pherCalls + 1
    /\ pherOp' = "evaporar"
    /\ UNCHANGED pherMin

Depositar ==
    /\ pherCalls < MaxCalls
    /\ \E solutions \in PherLists(Size(pher)), Q \in PherQs :
          /\ pher' = depositarFeromonas(solutions, pher, Q, pherMin)
          /\ pherArgs' = Some([antes |-> pher, solutions |-> solutions,
                                rho |-> Num(0), Q |-> Q])
    /\ pherCalls' = pherCalls + 1
    /\ pherOp' = "depositar"
    /\ UNCHANGED pherMin

Actualizar ==
    /\ pherCalls < MaxCalls
    /\ \E solutions \in PherLists(Size(pher)), rho \in PherRhos, Q \in PherQs :
          /\ pher' = actualizarFeromonas(pher, solutions, rho, Q, pherMin)
          /\ pherArgs' = Some([antes |-> pher, solutions |-> solutions,
                                rho |-> rho, Q |-> Q])
    /\ pherCalls' = pherCalls + 1
    /\ pherOp' = "actualizar"
    /\ UNCHANGED pherMin

NextPheromone ==
    \/ (Evaporar /\ UNCHANGED <<runVars, heurVars, extraVars>>)
    \/ (Depositar /\ UNCHANGED <<runVars, heurVars, extraVars>>)
    \/ (Actualizar /\ UNCHANGED <<runVars, heurVars, extraVars>>)

SpecPheromone == InitPheromone /\ [][NextPheromone]_vars

(***************************************************************************)
(* Baseline heuristics: runNearestNeighbor and run2Opt.                    *)
(***************************************************************************)
\* lines 331-339: the scan for the nearest unvisited node from index j on
RECURSIVE MasCercano(_, _, _, _, _, _)
Mut_MasCercano(j, nearestNode, nearestDist, current, visited, distanceMatrix) ==
    IF ~(j < Size(distanceMatrix)) THEN nearestNode
    ELSE IF j \notin visited /\ RLe(Num(distanceMatrix[current][j]), nearestDist)
         THEN MasCercano(j + 1, j, Num(distanceMatrix[current][j]),
                         current, visited, distanceMatrix)
         ELSE MasCercano(j + 1, nearestNode, nearestDist,
                         current, visited, distanceMatrix)

MasCercano(j, nearestNode, nearestDist, current, visited, distanceMatrix) ==
    IF ~(j < Size(distanceMatrix)) THEN nearestNode
    ELSE IF j \notin visited /\ RLt(Num(distanceMatrix[current][j]), nearestDist)
         THEN MasCercano(j + 1, j, Num(distanceMatrix[current][j]),
                         current, visited, distanceMatrix)
         ELSE MasCercano(j + 1, nearestNode, nearestDist,
                         current, visited, distanceMatrix)

\* lines 330-346: the while loop
RECURSIVE VecinoDesde(_, _, _, _)
VecinoDesde(tour, visited, current, distanceMatrix) ==
    IF ~(Cardinality(visited) < Size(distanceMatrix)) THEN tour
    ELSE LET nearestNode == MasCercano(0, -1, Infinity, current, visited,
                                       distanceMatrix)
         IN  IF nearestNode = -1 THEN tour
             ELSE VecinoDesde(Append(tour, nearestNode),
                              visited \cup {nearestNode}, nearestNode,
                              distanceMatrix)

Mut_runNearestNeighbor(distanceMatrix, startNode) ==
    LET tour == VecinoDesde(<<startNode>>, {startNode}, startNode, distanceMatrix)
    IN  [tour |-> tour,
         length |-> calcularLongitudRuta(SubSeq(tour, 1, Len(tour) - 1),
                                         distanceMatrix)]

runNearestNeighbor(distanceMatrix, startNode) ==
    LET tour == VecinoDesde(<<startNode>>, {startNode}, startNode, distanceMatrix)
    IN  [tour |-> tour, length |-> calcularLongitudRuta(tour, distanceMatrix)]

\* lines 385-389: the tour with the section between positions i+1 and j
\* (0-based) reversed
Invertir(tour, i, j) ==
    [k \in 1..Len(tour) |->
        IF k >= i + 2 /\ k <= j + 1 THEN tour[(i + 2) + (j + 1) - k] ELSE tour[k]]

\* lines 372-394: one sweep of the two for loops from (i, j) on; the result is
\* the tour after the sweep and the flag `improved`
RECURSIVE Barrido(_, _, _, _, _)
Barrido(tour, i, j, improved, distanceMatrix) ==
    CHOOSE r \in {
        IF ~(i < Len(t) - 1) THEN [tour |-> t, improved |-> imp]
        ELSE IF ~(j < Len(t)) THEN Barrido(t, i + 1, i + 3, imp, distanceMatrix)
        ELSE LET a == t[i + 1]
                 b == t[i + 2]
                 c == t[j + 1]
                 d == t[((j + 1) % Len(t)) + 1]
                 currentDist == FAdd(Num(distanceMatrix[a][b]),
                                     Num(distanceMatrix[c][d]))
                 newDist == FAdd(Num(distanceMatrix[a][c]),
                                 Num(distanceMatrix[b][d]))
             IN  IF RLt(newDist, currentDist)
                 THEN Barrido(Invertir(t, i, j), i, j + 1, TRUE, distanceMatrix)
                 ELSE Barrido(t, i, j + 1, imp, distanceMatrix) :
        t \in {tour}, imp \in {improved}} : TRUE

(***************************************************************************)
(* SpecHeuristics: the tour evaluator and the baseline heuristics on their *)
(* own.  A matrix is chosen; calcularLongitudRuta and runNearestNeighbor   *)
(* are applied to it, and run2Opt is run sweep by sweep (each pass of its  *)
(* while loop is a step), once on a tour and once more on its own result.  *)
(***************************************************************************)
\* the example of the specification, symmetric
MatrizEjemplo ==
    Mat(<< <<0, 10, 15, 20>>, <<10, 0, 35, 25>>, <<15, 35, 0, 30>>, <<20, 25, 30, 0>> >>)
\* an asymmetric 4x4 matrix
MatrizAsimetrica ==
    Mat(<< <<0, 1, 1, 3>>, <<3, 0, 1, 3>>, <<2, 3, 0, 2>>, <<1, 1, 2, 0>> >>)
\* a symmetric matrix with one distance beyond the integers that the numbers
\* of the model hold exactly next to 1
MatrizGrande ==
    Mat(<< <<0, 2 ^ MantissaBits, 1>>, <<2 ^ MantissaBits, 0, 1>>, <<1, 1, 0>> >>)
\* the 3x3 matrices with a zero diagonal and distances 1, 2, 3
Matrices3 ==
    {Mat(<< <<0, e[1], e[2]>>, <<e[3], 0, e[4]>>, <<e[5], e[6], 0>> >>) :
        e \in [1..6 -> {1, 2, 3}]}
HeurMatrices ==
    Matrices3 \cup {MatrizEjemplo, MatrizAsimetrica, MatrizGrande,
                    MatrizDegenerada, MatrizUnNodo}

\* the tours over the nodes of an n x n matrix: every order of 0..n-1
HeurTours(n) ==
    {t \in [1..n -> 0..(n - 1)] : \A a, b \in 1..n : a # b => t[a] # t[b]}

InitHeuristics ==
    /\ state = initialState
    /\ pauseRef = FALSE
    /\ stepResolveRef = NULL
    /\ closure = [isRunning |-> FALSE]
    /\ params = NoRun.params
    /\ cachedMatrix = <<>>
    /\ randSeq = <<>>
    /\ randIdx = 0
    /\ pc = "idle"
    /\ runs = 0
    /\ run = NoRun
    /\ returned = [status |-> "none", value |-> NULL]
    /\ pher = <<>>
    /\ pherMin = Num(0)
    /\ pherCalls = 0
    /\ pherOp = "none"
    /\ pherArgs = NULL
    /\ heurMatrix \in HeurMatrices
    /\ heurOp = "none"
    /\ heurIn = <<>>
    /\ heurOut = NULL
    /\ optTour = <<>>
    /\ optPc = "idle"
    /\ optCall = 0
    /\ optPrimero = NULL
    /\ ExtraReposo

\* calcularLongitudRuta(tour, matrix), the empty tour included
LongitudRuta ==
    /\ optPc # "sweep"
    /\ \E tour \in HeurTours(Size(heurMatrix)) \cup {<<>>} :
          /\ heurIn' = tour
          /\ heurOut' = Some([tour |-> tour,
                              length |-> calcularLongitudRuta(tour, heurMatrix)])
    /\ heurOp' = "calcularLongitudRuta"
    /\ optTour' = <<>>
    /\ optPc' = "idle"
    /\ optCall' = 0
    /\ optPrimero' = NULL
    /\ UNCHANGED heurMatrix

\* runNearestNeighbor(matrix, startNode)
NearestNeighbor ==
    /\ optPc # "sweep"
    /\ \E startNode \in 0..(Size(heurMatrix) - 1) :
          /\ heurIn' = <<startNode>>
          /\ heurOut' = Some(runNearestNeighbor(heurMatrix, startNode))
    /\ heurOp' = "runNearestNeighbor"
    /\ optTour' = <<>>
    /\ optPc' = "idle"
    /\ optCall' = 0
    /\ optPrimero' = NULL
    /\ UNCHANGED heurMatrix

\* lines 366-367: run2Opt(tour, matrix) is called
Run2Opt ==
    /\ optPc # "sweep"
    /\ \E tour \in HeurTours(Size(heurMatrix)) :
          /\ heurIn' = tour
          /\ optTour' = tour
    /\ heurOp' = "run2Opt"
    /\ heurOut' = NULL
    /\ optPc' = "sweep"
    /\ optCall' = 1
    /\ optPrimero' = NULL
    /\ UNCHANGED heurMatrix

\* run2Opt(result.tour, matrix) is called on the result of the call before
Run2OptOtraVez ==
    /\ optPc = "done"
    /\ optCall = 1
    /\ heurIn' = heurOut[1].tour
    /\ optTour' = heurOut[1].tour
    /\ optPrimero' = heurOut
    /\ heurOut' = NULL
    /\ optPc' = "sweep"
    /\ optCall' = 2
    /\ UNCHANGED <<heurMatrix, heurOp>>

Mut_Barrer ==
    /\ optPc = "sweep"
    /\ \E b \in {Barrido(optTour, 0, 2, FALSE, heurMatrix)} :
          /\ optTour' = b.tour
          /\ optPc' = "done"
          /\ heurOut' = Some([tour |-> b.tour,
                              length |-> calcularLongitudRuta(b.tour, heurMatrix)])
    /\ UNCHANGED <<heurMatrix, heurOp, heurIn, optCall, optPrimero>>

\* lines 369-398: one pass of the while loop; after a sweep without a reversal
\* the loop ends and the tour is returned with its length
Barrer ==
    /\ optPc = "sweep"
    /\ \E b \in {Barrido(optTour, 0, 2, FALSE, heurMatrix)} :
          /\ optTour' = b.tour
          /\ IF b.improved
             THEN /\ optPc' = "sweep"
                  /\ heurOut' = NULL
             ELSE /\ optPc' = "done"
                  /\ heurOut' = Some([tour |-> b.tour,
                                      length |-> calcularLongitudRuta(b.tour,
                                                                      heurMatrix)])
    /\ UNCHANGED <<heurMatrix, heurOp, heurIn, optCall, optPrimero>>

NextHeuristics ==
    \/ (LongitudRuta /\ UNCHANGED <<runVars, pherVars, extraVars>>)
    \/ (NearestNeighbor /\ UNCHANGED <<runVars, pherVars, extraVars>>)
    \/ (Run2Opt /\ UNCHANGED <<runVars, pherVars, extraVars>>)
    \/ (Run2OptOtraVez /\ UNCHANGED <<runVars, pherVars, extraVars>>)
    \/ (Barrer /\ UNCHANGED <<runVars, pherVars, extraVars>>)

SpecHeuristics == InitHeuristics /\ [][NextHeuristics]_vars

\* a call of run2Opt goes on: a pass of the while loop that can be made is made
SpecHeuristicsLive ==
    InitHeuristics /\ [][NextHeuristics]_vars
                   /\ WF_vars(Barrer /\ UNCHANGED <<runVars, pherVars, extraVars>>)

(***************************************************************************)
(* SpecLog: the log of the hook on its own.  addLog is called with         *)
(* messages numbered in the order of the calls; reset empties the log.     *)
(***************************************************************************)
\* the run, the pheromone model and the heuristics at rest
BaseReposo ==
    /\ state = initialState
    /\ pauseRef = FALSE
    /\ stepResolveRef = NULL
    /\ closure = [isRunning |-> FALSE]
    /\ params = NoRun.params
    /\ cachedMatrix = <<>>
    /\ randSeq = <<>>
    /\ randIdx = 0
    /\ pc = "idle"
    /\ runs = 0
    /\ run = NoRun
    /\ returned = [status |-> "none", value |-> NULL]
    /\ pher = <<>>
    /\ pherMin = Num(0)
    /\ pherCalls = 0
    /\ pherOp = "none"
    /\ pherArgs = NULL
    /\ HeurReposo

\* the number of entries addLog keeps of the log it is given (slice(-99))
LogKeep == 99

\* array.slice(-k): the last k elements, all of them when there are fewer
SliceUltimos(s, k) ==
    IF Len(s) <= k THEN s ELSE SubSeq(s, Len(s) - k + 1, Len(s))

Mut_addLog(prevLogs, entry) == Append(SliceUltimos(prevLogs, LogKeep + 1), entry)

\* the updater of addLog: [...prev.logs.slice(-99), entry]
addLog(prevLogs, entry) == Append(SliceUltimos(prevLogs, LogKeep), entry)

InitLog ==
    /\ BaseReposo
    /\ ExtraReposo

AddLog ==
    /\ logCalls < MaxLogCalls
    /\ logs' = addLog(logs, [message |-> logCalls + 1, type |-> "info"])
    /\ logCalls' = logCalls + 1
    /\ UNCHANGED logBase

\* reset(): the published state, the log with it, is the initial state again
ResetLog ==
    /\ logs # <<>>
    /\ logs' = <<>>
    /\ logBase' = logCalls
    /\ UNCHANGED logCalls

NextLog ==
    \/ (AddLog /\ UNCHANGED <<runVars, pherVars, heurVars, gateVars, snapVars>>)
    \/ (ResetLog /\ UNCHANGED <<runVars, pherVars, heurVars, gateVars, snapVars>>)

SpecLog == InitLog /\ [][NextLog]_vars

(***************************************************************************)
(* SpecGates: several invocations of ejecutarACO in step mode on one hook. *)
(* The hook has one stepResolveRef; every invocation stores the resolver   *)
(* of its own gate there.  An invocation is reduced to its gate loop: it   *)
(* takes GateMoves decisions, waits at the gate with each and applies it   *)
(* when released.  JavaScript runs one stretch of code at a time: while an *)
(* invocation is "building" nothing else runs.                             *)
(***************************************************************************)
Instancias == 1..MaxInst

\* no invocation is between two awaits
NadieEjecuta == \A i \in Instancias : instancias[i].pc # "building"

\* decisions applied (lines 379-381) by all invocations
TotalMoves ==
    LET RECURSIVE Suma(_)
        Suma(i) == IF i = 0 THEN 0 ELSE instancias[i].moves + Suma(i - 1)
    IN  Suma(MaxInst)

InitGates ==
    /\ BaseReposo
    /\ logs = <<>>
    /\ logCalls = 0
    /\ logBase = 0
    /\ instancias = [i \in Instancias |-> [pc |-> "idle", moves |-> 0]]
    /\ avances = 0
    /\ heap = <<>>
    /\ refs = <<>>

\* ejecutarACO is called (the hook refuses no call while another is in
\* flight); the invocation runs up to its first decision
IniciarInstancia(i) ==
    /\ NadieEjecuta
    /\ instancias[i].pc = "idle"
    /\ instancias' = [instancias EXCEPT ![i].pc = "building"]
    /\ UNCHANGED <<stepResolveRef, avances>>

Mut_AbrirPuerta(i) ==
    /\ instancias[i].pc = "building"
    /\ instancias[i].moves < GateMoves
    /\ instancias' = [instancias EXCEPT ![i].moves = @ + 1]
    /\ UNCHANGED <<stepResolveRef, avances>>

\* lines 352-376: a decision is taken, the resolver of a new promise is stored
\* in stepResolveRef and the invocation waits for the promise
AbrirPuerta(i) ==
    /\ instancias[i].pc = "building"
    /\ instancias[i].moves < GateMoves
    /\ stepResolveRef' = Some(i)
    /\ instancias' = [instancias EXCEPT ![i].pc = "stepGate"]
    /\ UNCHANGED avances

\* the invocation has taken its decisions and goes on to its end
TerminarInstancia(i) ==
    /\ instancias[i].pc = "building"
    /\ ~(instancias[i].moves < GateMoves)
    /\ instancias' = [instancias EXCEPT ![i].pc = "done"]
    /\ UNCHANGED <<stepResolveRef, avances>>

\* lines 434-439 and 379-381: advanceStep calls the stored resolver and clears
\* the ref; the invocation whose promise it resolves applies its decision.
\* With no resolver stored the call does nothing.
AdvanceStepGates ==
    /\ NadieEjecuta
    /\ IF stepResolveRef # NULL
       THEN /\ stepResolveRef' = NULL
            /\ instancias' = [instancias EXCEPT ![stepResolveRef[1]].pc = "building",
                                                ![stepResolveRef[1]].moves = @ + 1]
            /\ avances' = avances + 1
       ELSE UNCHANGED <<stepResolveRef, instancias, avances>>

\* the variables of the run other than stepResolveRef
runSinGate == <<state, pauseRef, closure, params, cachedMatrix, randSeq, randIdx,
                pc, runs, run, returned>>
gateFrame == <<runSinGate, pherVars, heurVars, logVars, snapVars>>

\* a stretch of code of an invocation that is ready to run
PasoInstancia == \E i \in Instancias : AbrirPuerta(i) \/ TerminarInstancia(i)

NextGates ==
    \/ (\E i \in Instancias : IniciarInstancia(i) /\ UNCHANGED gateFrame)
    \/ (\E i \in Instancias : AbrirPuerta(i) /\ UNCHANGED gateFrame)
    \/ (\E i \in Instancias : TerminarInstancia(i) /\ UNCHANGED gateFrame)
    \/ (AdvanceStepGates /\ UNCHANGED gateFrame)

SpecGates == InitGates /\ [][NextGates]_vars

\* the event loop runs a continuation that is ready, and advanceStep keeps
\* being called
SpecGatesLive ==
    InitGates /\ [][NextGates]_vars
              /\ WF_vars(PasoInstancia /\ UNCHANGED gateFrame)
              /\ WF_vars(AdvanceStepGates /\ UNCHANGED gateFrame)

(***************************************************************************)
(* SpecSnapshot: the arrays of a run by reference.  heap[a] is the array   *)
(* at address a: a row of the pheromone matrix (a function on 0..n-1), the *)
(* matrix itself (a function on 0..n-1 of row addresses), a tour (a        *)
(* sequence of nodes) or a list of solutions (a sequence of records with   *)
(* the address of a tour).  The run has one agent per iteration, not in    *)
(* step mode; the agent's choices are arbitrary unvisited nodes.  A        *)
(* consumer of the published state writes into a matrix it was given.      *)
(* refs.fotos records, for every publication, what was published and the   *)
(* value it had then.                                                      *)
(***************************************************************************)
\* the matrix at address a, by value
Matriz(h, a) == [i \in DOMAIN h[a] |-> h[h[a][i]]]

\* the tours of the list of solutions at address a, by value
ToursDe(h, a) == [k \in 1..Len(h[a]) |-> h[h[a][k].tour]]

Mut_CopiarMatriz(h, a) ==
    [heap |-> Append(h, h[a]), addr |-> Len(h) + 1]

\* line 412, [...pheromone.map(row => [...row])]: a new array of new rows
CopiarMatriz(h, a) ==
    LET n == Size(h[a])
        rows == [k \in 1..n |-> h[h[a][k - 1]]]
    IN  [heap |-> Append(h \o rows, [i \in 0..(n - 1) |-> Len(h) + i + 1]),
         addr |-> Len(h) + n + 1]

\* lines 329-330: the run starts with the matrix inicializarFeromonas returns
InitSnapshot ==
    /\ BaseReposo
    /\ logs = <<>>
    /\ logCalls = 0
    /\ logBase = 0
    /\ instancias = <<>>
    /\ avances = 0
    /\ \E d \in {MatrizSimetrica, MatrizEjemplo} :
          LET n == Size(d)
              inicial == inicializarFeromonas(n, Num(1), Rat(1, 100))
          IN  /\ heap = [k \in 1..(n + 1) |->
                            IF k <= n THEN inicial[k - 1]
                            ELSE [i \in 0..(n - 1) |-> i + 1]]
              /\ refs = [pc |-> "iterTop", iter |-> 0, distanceMatrix |-> d,
                         pheromone |-> n + 1, tour |-> 0, solutions |-> 0,
                         published |-> NULL, fotos |-> <<>>, consumos |-> 0]

\* lines 345-346: a new agent with the tour [0] and a new list of solutions
SnapIniciarIteracion ==
    /\ refs.pc = "iterTop"
    /\ refs.iter < MaxIter
    /\ heap' = heap \o << <<0>>, <<>> >>
    /\ refs' = [refs EXCEPT !.tour = Len(heap) + 1, !.solutions = Len(heap) + 2,
                            !.pc = "building"]

\* lines 352-381: ant.tour.push(choice)
SnapPush ==
    /\ refs.pc = "building"
    /\ Len(heap[refs.tour]) < Size(refs.distanceMatrix)
    /\ \E choice \in DOMAIN refs.distanceMatrix \ Range(heap[refs.tour]) :
          heap' = [heap EXCEPT ![refs.tour] = Append(@, choice)]
    /\ UNCHANGED refs

\* lines 384-388: solutions.push({ tour: [...ant.tour], length }), then the
\* delay
SnapRegistrar ==
    /\ refs.pc = "building"
    /\ ~(Len(heap[refs.tour]) < Size(refs.distanceMatrix))
    /\ heap' = Append([heap EXCEPT ![refs.solutions] =
                          Append(@, [tour |-> Len(heap) + 1,
                                     length |-> calcularLongitudRuta(
                                                    heap[refs.tour],
                                                    refs.distanceMatrix)])],
                      heap[refs.tour])
    /\ refs' = [refs EXCEPT !.pc = "antDelay"]

\* lines 407-425: actualizarFeromonas writes into the rows of the run's
\* matrix, a copy of the matrix is published and the list of solutions is
\* handed to onIterationComplete
SnapFinIteracion ==
    /\ refs.pc = "antDelay"
    /\ LET solutions == [k \in 1..Len(heap[refs.solutions]) |->
                            [tour |-> heap[heap[refs.solutions][k].tour],
                             length |-> heap[refs.solutions][k].length]]
           nueva == actualizarFeromonas(Matriz(heap, refs.pheromone), solutions,
                                        Rat(1, 2), Num(1), Rat(1, 100))
           filas == heap[refs.pheromone]
           h1 == [a \in DOMAIN heap |->
                     IF \E i \in DOMAIN filas : filas[i] = a
                     THEN nueva[CHOOSE i \in DOMAIN filas : filas[i] = a]
                     ELSE heap[a]]
           copia == CopiarMatriz(h1, refs.pheromone)
       IN  /\ heap' = copia.heap
           /\ refs' = [refs EXCEPT
                          !.published = Some(copia.addr),
                          !.fotos = Append(@, [matriz |-> copia.addr,
                                               valor |-> Matriz(copia.heap, copia.addr),
                                               soluciones |-> refs.solutions,
                                               tours |-> ToursDe(heap, refs.solutions),
                                               tocada |-> FALSE]),
                          !.iter = @ + 1,
                          !.pc = "iterTop"]

\* line 338 with iter = iteraciones: the run ends
SnapCompletar ==
    /\ refs.pc = "iterTop"
    /\ ~(refs.iter < MaxIter)
    /\ refs' = [refs EXCEPT !.pc = "done"]
    /\ UNCHANGED heap

\* a consumer of the published state writes into a pheromone matrix it was
\* given, while the run is suspended or over
Consumidor ==
    /\ refs.pc \in {"antDelay", "done"}
    /\ \E k \in DOMAIN refs.fotos :
          /\ ~refs.fotos[k].tocada
          /\ heap' = [heap EXCEPT ![heap[refs.fotos[k].matriz][0]][1] = Num(9)]
          /\ refs' = [refs EXCEPT !.fotos[k].tocada = TRUE, !.consumos = @ + 1]

snapFrame == <<runVars, pherVars, heurVars, logVars, gateVars>>

NextSnapshot ==
    \/ (SnapIniciarIteracion /\ UNCHANGED snapFrame)
    \/ (SnapPush /\ UNCHANGED snapFrame)
    \/ (SnapRegistrar /\ UNCHANGED snapFrame)
    \/ (SnapFinIteracion /\ UNCHANGED snapFrame)
    \/ (SnapCompletar /\ UNCHANGED snapFrame)
    \/ (Consumidor /\ UNCHANGED snapFrame)

SpecSnapshot == InitSnapshot /\ [][NextSnapshot]_vars

(***************************************************************************)
(* The run left uninterrupted: ejecutarACO computed in one go from the     *)
(* draw it starts at (no pause, no step gate, no reset).                   *)
(***************************************************************************)
\* lines 352-382: one agent built to the end; k is the next draw
RECURSIVE ConstruirTour(_, _, _, _, _)
ConstruirTour(ant, pheromone, distanceMatrix, p, k) ==
    IF ~(Cardinality(ant.visited) < Size(distanceMatrix))
    THEN [ant |-> ant, k |-> k]
    ELSE LET sel == seleccionarSiguienteNodo(ant, pheromone, distanceMatrix,
                        p.alpha, p.beta, Size(distanceMatrix), Draw(k))
         IN  IF sel.choice = -1 THEN [ant |-> ant, k |-> k + 1]
             ELSE ConstruirTour(AplicarEleccion(ant, sel.choice), pheromone,
                                distanceMatrix, p, k + 1)

\* lines 349-389: the solutions of the agents antIdx.. of one iteration
RECURSIVE ConstruirSoluciones(_, _, _, _, _, _)
ConstruirSoluciones(antIdx, solutions, pheromone, distanceMatrix, p, k) ==
    IF ~(antIdx < p.numHormigas) THEN [solutions |-> solutions, k |-> k]
    ELSE LET built == ConstruirTour(inicializarHormiga(0), pheromone,
                                    distanceMatrix, p, k)
             sol == [tour |-> built.ant.tour,
                     length |-> calcularLongitudRuta(built.ant.tour, distanceMatrix)]
         IN  ConstruirSoluciones(antIdx + 1, Append(solutions, sol), pheromone,
                                 distanceMatrix, p, built.k)

\* lines 338-431: the iterations iter.. and the value returned
RECURSIVE CorridaDesde(_, _, _, _, _, _)
CorridaDesde(iter, pheromone, globalBest, distanceMatrix, p, k) ==
    IF ~(iter < p.iteraciones) THEN globalBest
    ELSE LET it == ConstruirSoluciones(0, <<>>, pheromone, distanceMatrix, p, k)
         IN  CorridaDesde(iter + 1,
                 actualizarFeromonas(pheromone, it.solutions, p.rho, p.Q,
                                     p.minPheromone),
                 NuevoGlobalBest(globalBest, MejorDeIteracion(it.solutions)),
                 distanceMatrix, p, it.k)

\* what the run r returns when nothing interrupts it (numHormigas >= 1)
CorridaSinInterrupcion(r) ==
    CorridaDesde(0,
        inicializarFeromonas(Size(r.distanceMatrix), Num(1), r.params.minPheromone),
        NULL, r.distanceMatrix, r.params, r.randStart)

RECURSIVE RMinDesde(_, _, _)
RMinDesde(s, k, m) ==
    IF k > Len(s) THEN m
    ELSE RMinDesde(s, k + 1, IF RLt(s[k], m) THEN s[k] ELSE m)

\* the minimum of a non-empty series
RMin(s) == RMinDesde(s, 2, s[1])

(***************************************************************************)
(* Claims.                                                                 *)
(***************************************************************************)

\* C1: a run that was paused with togglePause and resumed, and was not reset,
\* executes all numIterations iterations and returns the global best of the
\* same run left uninterrupted (same random draws).
PauseResumeSameResult ==
    (pc = "done" /\ run.pausa = "reanudada" /\ ~run.cancelled)
        => /\ Len(run.bestPerIteration) = run.params.iteraciones
           /\ returned.value = CorridaSinInterrupcion(run)

\* C2: once an iteration has completed, and in the value the run returns, the
\* global-best length is the minimum of the best-per-iteration series.
GlobalBestIsMin ==
    /\ Len(run.bestPerIteration) > 0
          => /\ run.globalBest # NULL
             /\ run.globalBest[1].length = RMin(run.bestPerIteration)
    /\ (pc = "done" /\ returned.status = "resolved" /\ returned.value # NULL)
          => returned.value[1].length = RMin(run.bestPerIteration)

\* C2 witness: a run has returned after two iterations of which the second
\* was strictly better than the first.
GlobalBestIsMinWitness ==
    /\ pc = "done"
    /\ returned.status = "resolved"
    /\ Len(run.bestPerIteration) = 2
    /\ RLt(run.bestPerIteration[2], run.bestPerIteration[1])
    /\ returned.value # NULL
    /\ returned.value[1].length = run.bestPerIteration[2]

\* C3: within one run the global-best length never increases, and the global
\* best changes only to a strictly shorter solution (on an equal length the
\* earlier tour is kept).
GlobalBestMonotone ==
    [][(run.globalBest # NULL /\ runs' = runs)
          => /\ run'.globalBest # NULL
             /\ RLe(run'.globalBest[1].length, run.globalBest[1].length)
             /\ (run'.globalBest # run.globalBest
                    => RLt(run'.globalBest[1].length, run.globalBest[1].length))]_vars

\* C3 witness: an iteration ended whose best had the length of the global best
\* but another tour, and the global best kept its tour.
GlobalBestMonotoneWitness ==
    /\ pc = "iterTop"
    /\ Len(run.reports) >= 2
    /\ LET last == run.reports[Len(run.reports)]
           iterBest == MejorDeIteracion(last.solutions)
       IN  /\ iterBest.length = run.globalBest[1].length
           /\ iterBest.tour # run.globalBest[1].tour

IsInjective(s) == \A a, b \in DOMAIN s : a # b => s[a] # s[b]

PheromoneAboveFloor ==
    \A i, j \in DOMAIN pher : i # j => RLe(pherMin, pher[i][j])

\* C5 witness: an update has evaporated a cell down to a floor below the
\* initial value.
PheromoneAboveFloorWitness ==
    /\ pherOp = "actualizar"
    /\ RLt(pherMin, Num(1))
    /\ \E i, j \in DOMAIN pher : i # j /\ pher[i][j] = pherMin

\* C6: the diagonal of the pheromone matrix is zero after inicializarFeromonas
\* and after every evaporation and deposit.
DiagonalIsZero ==
    \A i \in DOMAIN pher : pher[i][i] = Num(0)

\* C7: a run never starts on a distance matrix that is empty or not square:
\* no invocation gets past validation with such a matrix, so the matrix of
\* every run that has changed run state is non-empty and square.
InvalidMatrixNeverRuns ==
    ~MatrizValida(run.distanceMatrix) => run = NoRun

\* C8: with numHormigas = 0 or iteraciones = 0 no run ever starts: isRunning
\* stays false and no invocation is in flight or ends with an exception.
InvalidParamsNeverRun ==
    (params.numHormigas = 0 \/ params.iteraciones = 0)
        => /\ ~state.isRunning
           /\ runs = 0
           /\ pc # "thrown"

\* C9: once reset has been called on a run in flight, the run begins no
\* further iteration: at the next iteration boundary it stops.
CancelledRunStops ==
    [][(run.cancelled /\ pc \in {"iterTop", "pauseWait"})
          => pc' \notin {"building", "endIter"}]_vars

\* C10: the run is suspended on pause only at the top of an iteration, and
\* while the flag stays set (and no reset was requested) it remains suspended:
\* it does no work and does not return.
PauseSuspendsRun ==
    [][/\ (pc' = "pauseWait" /\ pc # "pauseWait") => pc = "iterTop"
       /\ (pc = "pauseWait" /\ pauseRef /\ pauseRef' /\ ~run.cancelled)
             => (pc' = "pauseWait" /\ run' = run /\ returned' = returned)]_vars

\* a node is appended to the tour of an agent between r and s
TourCrece(r, s) ==
    \E k \in DOMAIN r.hormigas \cap DOMAIN s.hormigas :
        Len(s.hormigas[k].tour) > Len(r.hormigas[k].tour)

\* the decisions the agents of the current iteration have taken and applied
RECURSIVE DecisionesAplicadas(_, _)
DecisionesAplicadas(hormigas, k) ==
    IF k > Len(hormigas) THEN 0
    ELSE (Len(hormigas[k].tour) - 1) + DecisionesAplicadas(hormigas, k + 1)

\* C11: in a run started in step mode every agent decision calls onAntStep
\* exactly once and the run then waits at the gate: the chosen node joins the
\* tour only in the step in which advanceStep resolves the gate, and nothing
\* but advanceStep takes the run off the gate; in a run started without step
\* mode onAntStep is never called and the run never waits at the gate.
StepGate ==
    [][runs' = runs =>
         /\ run'.antSteps # run.antSteps
               => /\ run.isStepMode
                  /\ run'.antSteps = run.antSteps + 1
                  /\ pc = "building" /\ pc' = "stepGate"
                  /\ run'.hormigas = run.hormigas
                  /\ run'.choice \notin HormigaActual(run).visited
         /\ (run.isStepMode /\ TourCrece(run, run'))
               => /\ pc = "stepGate"
                  /\ stepResolveRef # NULL /\ stepResolveRef' = NULL
                  /\ run'.hormigas[run.antIdx + 1] =
                        AplicarEleccion(HormigaActual(run), run.choice)
                  /\ run'.antSteps = run.antSteps
         /\ (pc = "stepGate" /\ pc' # "stepGate")
               => (stepResolveRef # NULL /\ stepResolveRef' = NULL)
         /\ (pc = "stepGate" /\ pc' = "stepGate")
               => (run'.hormigas = run.hormigas /\ returned' = returned)
         /\ ~run.isStepMode
               => (run'.antSteps = 0 /\ pc' # "stepGate")
         /\ (run'.isStepMode /\ pc' \in {"building", "stepGate", "antDelay", "endIter"})
               => run'.antSteps =
                     run'.iter * run'.params.numHormigas * (run'.n - 1)
                     + DecisionesAplicadas(run'.hormigas, 1)
                     + (IF pc' = "stepGate" THEN 1 ELSE 0)]_vars

\* C11 witness: a run in step mode waits at the gate for the second decision
\* of an agent, the first having been applied by advanceStep.
StepGateWitness ==
    /\ pc = "stepGate"
    /\ run.isStepMode
    /\ run.antSteps = 2
    /\ Len(HormigaActual(run).tour) = 2
    /\ stepResolveRef # NULL

\* C12: onIterationComplete is called once per completed iteration, with the
\* iteration numbers 1, 2, ... in order; the call comes with the pheromone
\* update done and the state published, and passes the length just appended
\* to the convergence series and the numHormigas solutions of the iteration.
IterationReports ==
    [][runs' = runs =>
         /\ Len(run'.reports) = run'.iter
         /\ Len(run'.reports) = Len(run'.bestPerIteration)
         /\ \A k \in DOMAIN run'.reports :
               /\ run'.reports[k].iteration = k
               /\ run'.reports[k].best = run'.bestPerIteration[k]
               /\ Len(run'.reports[k].solutions) = run'.params.numHormigas
         /\ run'.reports # run.reports
               => /\ Len(run'.reports) = Len(run.reports) + 1
                  /\ SubSeq(run'.reports, 1, Len(run.reports)) = run.reports
                  /\ run'.reports[Len(run'.reports)].solutions = run.solutions
                  /\ run'.pheromone =
                        actualizarFeromonas(run.pheromone, run.solutions,
                            run.params.rho, run.params.Q, run.params.minPheromone)
                  /\ state'.pheromone = run'.pheromone
                  /\ state'.bestPerIteration = run'.bestPerIteration
                  /\ state'.bestSolution = run'.globalBest
         /\ (pc' = "done" /\ pc = "iterTop")
               => Len(run'.reports) = run'.params.iteraciones]_vars

\* C12 witness: a run of two iterations with two agents has completed and
\* made its two calls.
IterationReportsWitness ==
    /\ pc = "done"
    /\ run.params.numHormigas = 2
    /\ Len(run.reports) = 2
    /\ run.reports[2].iteration = 2
    /\ run.reports[1].best # run.reports[2].best

\* a run that was never paused has completed all its iterations
Completa ==
    /\ pc = "done"
    /\ run.pausa = "no"
    /\ Len(run.bestPerIteration) = run.params.iteraciones
    /\ Len(state.bestPerIteration) = run.params.iteraciones
    /\ state.progress = Num(100)
    /\ ~state.isRunning
    /\ returned.status = "resolved"
    /\ returned.value # NULL
    /\ returned.value = run.globalBest

\* C13: a run on a non-empty matrix with numHormigas >= 1 and iteraciones >= 1,
\* not in step mode and never paused, eventually completes: it has executed
\* exactly iteraciones iterations, progress is 100, isRunning is false and the
\* value returned is the (non-null) global best.
RunCompletes ==
    (/\ pc \in InFlight
     /\ ~run.isStepMode
     /\ run.params.numHormigas >= 1
     /\ run.params.iteraciones >= 1
     /\ run.pausa = "no") ~> (Completa \/ run.pausa # "no")

\* C13 witness: a run of two iterations, never paused and not in step mode,
\* has completed.
RunCompletesWitness ==
    /\ Completa
    /\ ~run.isStepMode
    /\ run.params.iteraciones = 2
    /\ Len(run.reports) = 2

\* the nodes of a tour before position k
Visitados(tour, k) == {tour[m] : m \in 1..k}

\* C14: for every matrix of finite distances and every start node,
\* runNearestNeighbor returns a tour that begins with the start node and holds
\* every node index 0..n-1 exactly once, and the length returned is
\* calcularLongitudRuta of that tour.
NearestNeighborPermutation ==
    heurOp = "runNearestNeighbor" =>
        LET r == heurOut[1]
            n == Size(heurMatrix)
        IN  /\ r.tour[1] = heurIn[1]
            /\ Len(r.tour) = n
            /\ Visitados(r.tour, Len(r.tour)) = 0..(n - 1)
            /\ r.length = calcularLongitudRuta(r.tour, heurMatrix)

\* C14 witness: runNearestNeighbor has returned a tour of the four nodes of an
\* asymmetric matrix from start node 2.
NearestNeighborPermutationWitness ==
    /\ heurOp = "runNearestNeighbor"
    /\ heurMatrix = MatrizAsimetrica
    /\ heurIn = <<2>>
    /\ Len(heurOut[1].tour) = 4
    /\ heurOut[1].tour[1] = 2

\* C15: every move of runNearestNeighbor goes to the unvisited node with the
\* smallest distance from the current node, the lowest index among several
\* such nodes; on the example matrix from start 0 the result is the tour
\* [0,1,3,2] with length 80.
NearestNeighborGreedy ==
    /\ heurOp = "runNearestNeighbor" =>
          LET tour == heurOut[1].tour
          IN  \A k \in 1..(Len(tour) - 1) :
                 \A j \in (0..(Size(heurMatrix) - 1)) \ Visitados(tour, k) :
                    /\ heurMatrix[tour[k]][tour[k + 1]] <= heurMatrix[tour[k]][j]
                    /\ heurMatrix[tour[k]][tour[k + 1]] = heurMatrix[tour[k]][j]
                          => tour[k + 1] <= j
    /\ (heurOp = "runNearestNeighbor" /\ heurMatrix = MatrizEjemplo /\ heurIn = <<0>>)
          => heurOut = Some([tour |-> <<0, 1, 3, 2>>, length |-> Num(80)])

\* C15 witness: runNearestNeighbor has run on the example matrix from start 0
\* and has returned the tour [0,1,3,2].
NearestNeighborGreedyWitness ==
    /\ heurOp = "runNearestNeighbor"
    /\ heurMatrix = MatrizEjemplo
    /\ heurIn = <<0>>
    /\ heurOut[1].tour = <<0, 1, 3, 2>>

\* a matrix with a zero diagonal and no negative distance
NoNegativa(m) ==
    \A i \in DOMAIN m : \A j \in DOMAIN m[i] :
        /\ m[i][j] >= 0
        /\ i = j => m[i][j] = 0

\* C16: for every input tour and every non-negative zero-diagonal matrix,
\* symmetric or not, the tour returned by run2Opt has a length not greater
\* than the length of the input tour.
TwoOptNeverLonger ==
    (optPc = "done" /\ NoNegativa(heurMatrix)) =>
        RLe(heurOut[1].length, calcularLongitudRuta(heurIn, heurMatrix))

\* C17: a call of run2Opt returns: the sweeps end with one that applies no
\* reversal.
TwoOptTerminates == (optPc = "sweep") ~> (optPc = "done")

\* C18: when run2Opt returns, run2Opt applied to the tour it returned gives the
\* same tour and the same length.
TwoOptIdempotent ==
    (optPc = "done" /\ optCall = 2) => heurOut = optPrimero

\* C18 witness: on the asymmetric 3x3 matrix the first call has turned the
\* tour [0,1,2] into [0,2,1] and the second call, on [0,2,1], has returned.
TwoOptIdempotentWitness ==
    /\ optPc = "done"
    /\ optCall = 2
    /\ heurMatrix = Mat(<< <<0, 1, 1>>, <<1, 0, 1>>, <<2, 3, 0>> >>)
    /\ heurIn = <<0, 2, 1>>
    /\ optPrimero # NULL
    /\ optPrimero[1].tour = <<0, 2, 1>>

\* the tour moved k positions round: it starts at position k + 1
Rotar(tour, k) ==
    [m \in 1..Len(tour) |-> tour[((m + k - 1) % Len(tour)) + 1]]

\* the tour in the opposite order
Revertir(tour) == [m \in 1..Len(tour) |-> tour[Len(tour) + 1 - m]]

EsSimetrica(m) ==
    \A i \in DOMAIN m : \A j \in DOMAIN m[i] : m[i][j] = m[j][i]

\* C19: calcularLongitudRuta returns the same value for a tour and for each of
\* its cyclic rotations on any matrix, the same value for the reversed tour
\* when the matrix is symmetric, and 0 for the empty tour.
LongitudInvariante ==
    heurOp = "calcularLongitudRuta" =>
        /\ \A k \in 0..(Len(heurIn) - 1) :
              calcularLongitudRuta(Rotar(heurIn, k), heurMatrix) = heurOut[1].length
        /\ EsSimetrica(heurMatrix) =>
              calcularLongitudRuta(Revertir(heurIn), heurMatrix) = heurOut[1].length
        /\ heurIn = <<>> => heurOut[1].length = Num(0)

\* C20: no agent's tour holds a move chosen by seleccionarSiguienteNodo along
\* an edge of zero or negative distance.
NoDegenerateEdge ==
    \A k \in DOMAIN run.hormigas :
        LET tour == run.hormigas[k].tour
        IN  \A m \in 1..(Len(tour) - 1) :
               run.distanceMatrix[tour[m]][tour[m + 1]] > 0

\* C21: the log holds at most 100 entries, and they are the most recent ones
\* in the order they were added.
LogBounded ==
    /\ Len(logs) <= 100
    /\ Len(logs) = IF logCalls - logBase < 100 THEN logCalls - logBase ELSE 100
    /\ \A k \in 1..Len(logs) : logs[k].message = logCalls - Len(logs) + k

\* C21 witness: 102 entries were added to an empty log; it holds entries 3 to
\* 102.
LogBoundedWitness ==
    /\ logBase = 0
    /\ logCalls = 102
    /\ Len(logs) = 100
    /\ logs[1].message = 3
    /\ logs[100].message = 102

\* C22: in each iteration the pheromone matrix is updated exactly once, after
\* all agents have finished, by evaporation followed by deposit: the new
\* matrix is the deposit of the iteration's solutions on the evaporated one, so
\* no cell is below its evaporated value.
UpdateOncePerIteration ==
    [][/\ (runs' = runs /\ run'.iter = run.iter + 1) =>
             /\ pc = "endIter"
             /\ Len(run.solutions) = run.params.numHormigas
             /\ LET evaporada == evaporarFeromonas(run.pheromone, run.params.rho,
                                                   run.params.minPheromone)
                IN  /\ run'.pheromone =
                          depositarFeromonas(run.solutions, evaporada,
                                             run.params.Q, run.params.minPheromone)
                    /\ \A i \in DOMAIN evaporada : \A j \in DOMAIN evaporada[i] :
                          RLe(evaporada[i][j], run'.pheromone[i][j])
       /\ (runs' = runs /\ run'.pheromone # run.pheromone) =>
             run'.iter = run.iter + 1]_vars

\* C22 witness: the first iteration of a run with two agents has ended and
\* the edge 0-1 holds more than its evaporated initial value.
UpdateOncePerIterationWitness ==
    /\ pc = "iterTop"
    /\ run.iter = 1
    /\ Len(run.solutions) = 2
    /\ run.n = 3
    /\ RLt(Rat(1, 2), run.pheromone[0][1])
    /\ state.pheromone = run.pheromone

\* the number of times the tour adds to the cell (i, j): once for every edge
\* from i to j and once for every edge from j to i, the closing edge included
Adiciones(tour, i, j) ==
    LET m == Len(tour)
        desde(e) == tour[e]
        hasta(e) == tour[(e % m) + 1]
    IN  Cardinality({e \in 1..m : desde(e) = i /\ hasta(e) = j})
          + Cardinality({e \in 1..m : desde(e) = j /\ hasta(e) = i})

\* the sum of Q / length over the solutions of positive length and their
\* additions to the cell (i, j)
Incremento(solutions, Q, i, j) ==
    RSum([k \in 1..Len(solutions) |->
            IF RLe(solutions[k].length, Num(0)) THEN Num(0)
            ELSE RMul(Num(Adiciones(solutions[k].tour, i, j)),
                      RDiv(Q, solutions[k].length))], 1)

PheromoneSymmetric ==
    \A i \in DOMAIN pher : \A j \in DOMAIN pher[i] : pher[i][j] = pher[j][i]

\* C29 witness: after an update with the tour [0,1,3,2] of a 4x4 matrix the
\* edges 0-1 and 0-3 hold different amounts, each the same in both directions.
PheromoneSymmetricWitness ==
    /\ pherOp = "actualizar"
    /\ Size(pher) = 4
    /\ pherArgs[1].solutions = <<[tour |-> <<0, 1, 3, 2>>, length |-> Num(2)]>>
    /\ pher[0][1] # pher[0][3]
    /\ pher[0][1] = pher[1][0]
    /\ pher[0][3] = pher[3][0]

\* C25: whenever the promise of a run has settled the published isRunning is
\* false, and isRunning is true only while a run is in flight.
SettledNotRunning ==
    /\ returned.status \in {"resolved", "rejected"} => ~state.isRunning
    /\ state.isRunning => pc \in InFlight

\* C26: after reset was called on a run in flight, no step of that run
\* changes the published pheromone, bestSolution, bestPerIteration, progress,
\* metrics or isRunning.
ResetSilencesRun ==
    [][(run.cancelled /\ pc \in InFlight /\ pc' # pc) =>
          /\ state'.pheromone = state.pheromone
          /\ state'.bestSolution = state.bestSolution
          /\ state'.bestPerIteration = state.bestPerIteration
          /\ state'.progress = state.progress
          /\ state'.metrics = state.metrics
          /\ state'.isRunning = state.isRunning]_vars

\* C30: the node seleccionarSiguienteNodo returned, published at the step
\* gate, is unvisited and has an entry in the probability list returned with
\* it.
ChoiceHasProbability ==
    (pc = "stepGate" /\ ~run.cancelled /\ state.currentStep # NULL) =>
        /\ run.choice \notin HormigaActual(run).visited
        /\ state.currentStep[1].node = run.choice
        /\ \E k \in DOMAIN state.currentProbabilities :
              state.currentProbabilities[k].nodeIndex = run.choice

\* C27: with several step-mode invocations in flight, every invocation
\* waiting at a step gate is eventually released when advanceStep keeps being
\* called.
GatesReleased ==
    \A i \in Instancias :
        (instancias[i].pc = "stepGate") ~> (instancias[i].pc # "stepGate")

\* C28: the decisions applied never outnumber the advanceStep calls made
\* while a gate was pending, and a step that applies a decision applies one,
\* is one such call and clears the gate.
AdvanceReleasesOne ==
    /\ [](TotalMoves <= avances)
    /\ [][TotalMoves' # TotalMoves =>
             /\ TotalMoves' = TotalMoves + 1
             /\ avances' = avances + 1
             /\ stepResolveRef # NULL
             /\ stepResolveRef' = NULL]_vars

\* C28 witness: an invocation has applied its two decisions after two calls of
\* advanceStep and no gate is pending.
AdvanceReleasesOneWitness ==
    /\ instancias[1].pc = "done"
    /\ instancias[1].moves = GateMoves
    /\ avances = GateMoves
    /\ stepResolveRef = NULL

\* C24: a pheromone matrix published after an iteration keeps the value it
\* had when it was published, whatever later iterations do, until a consumer
\* writes into it; the tours of the solutions handed to onIterationComplete
\* keep their values; and a write of a consumer into a published matrix
\* leaves the matrix of the run as it was.
PublishedIsSnapshot ==
    /\ [](\A k \in DOMAIN refs.fotos :
             /\ ~refs.fotos[k].tocada =>
                   Matriz(heap, refs.fotos[k].matriz) = refs.fotos[k].valor
             /\ ToursDe(heap, refs.fotos[k].soluciones) = refs.fotos[k].tours)
    /\ [][refs'.consumos # refs.consumos =>
             Matriz(heap', refs.pheromone) = Matriz(heap, refs.pheromone)]_vars

\* C24 witness: the second iteration has updated the matrix of the run, the
\* first publication still has its value and differs from the run's matrix,
\* and a consumer has written into the second publication.
PublishedIsSnapshotWitness ==
    /\ refs.pc = "done"
    /\ Len(refs.fotos) = 2
    /\ ~refs.fotos[1].tocada
    /\ refs.fotos[2].tocada
    /\ Matriz(heap, refs.fotos[1].matriz) = refs.fotos[1].valor
    /\ Matriz(heap, refs.fotos[1].matriz) # Matriz(heap, refs.pheromone)
    /\ Matriz(heap, refs.fotos[2].matriz) # Matriz(heap, refs.pheromone)

====
